---------------------------- MODULE Spec2Model ----------------------------
(***************************************************************************)
(* Model of middlewared's jail plugin (plugins/jail.py): the JailService   *)
(* methods, the job locks their decorators declare, the start/stop         *)
(* bracket of update/upgrade/export and the pool activation sweep.         *)
(***************************************************************************)
EXTENDS Integers, Sequences, FiniteSets, TLC

(***************************************************************************)
(* Bounds                                                                  *)
(***************************************************************************)
\* number of pools libzfs reports (zfs.pools)
NumPools ==
    2

\* number of clients calling jail.activate
NumCallers ==
    2

\* pool names are 1..NumPools in the order zfs.pools yields them; the name
\* NumPools + 1 is a name no pool has
Pools ==
    1..NumPools

PoolNames ==
    1..(NumPools + 1)

Callers ==
    1..NumCallers

\* number of requests clients submit to the jail service
NumJobs ==
    2

\* client requests; request r + NumJobs is the jail.fetch job that the
\* create_job request r submits
Clients ==
    1..NumJobs

ReqIds ==
    1..(2 * NumJobs)

JailIds ==
    {"web1", "db1", "tpl1", "new1"}

Releases ==
    {"11.1-RELEASE", "11.0-RELEASE"}

VARIABLES
    active,     \* active[p]: the org.freebsd.ioc:active property of pool p is "yes"
    act,        \* act[c]: the activate call of client c
    jails,      \* jails[j]: what iocage holds for identifier j
    images,     \* the releases present under iocroot/releases
    locks,      \* the job lock names that are held
    req         \* req[r]: the call r, its arguments, position and locals

poolVars ==
    <<active, act>>

jailVars ==
    <<jails, images, locks, req>>

vars ==
    <<active, act, jails, images, locks, req>>

(***************************************************************************)
(* JailService.activate                                                    *)
(***************************************************************************)
\* alone and before are history, kept while the loop runs: whether no other
\* activate call was in its loop since this one was made, and the flags the
\* call found ("exact": only the named pool active, "other": some other pool
\* active, "none": no pool active)
IdleCall ==
    [pc |-> "idle", pool |-> 0, idx |-> 0, result |-> "none",
     alone |-> FALSE, before |-> "none"]

FlagsSeenBy(pool) ==
    IF \E p \in Pools \ {pool} : active[p] THEN "other"
    ELSE IF pool \in Pools /\ active[pool] THEN "exact"
    ELSE "none"

\* the value one iteration of the loop writes to pool _pool's property
activate_value_noclear(_pool, pool, old) ==
    IF _pool = pool THEN TRUE ELSE old

activate_value(_pool, pool, old) ==
    _pool = pool

\* a client calls activate(pool): zfs.pools is read, nothing written yet
ActivateCall(c, pool) ==
    /\ act[c].pc \in {"idle", "returned"}
    /\ act' = [d \in Callers |->
                 IF d = c
                 THEN [pc |-> "sweep", pool |-> pool, idx |-> 1,
                       result |-> "none",
                       alone |-> \A e \in Callers \ {c} : act[e].pc # "sweep",
                       before |-> FlagsSeenBy(pool)]
                 ELSE IF act[d].pc = "sweep"
                      THEN [act[d] EXCEPT !.alone = FALSE]
                      ELSE act[d]]
    /\ UNCHANGED <<active, jailVars>>

\* one iteration of "for _pool in pools": one property write
ActivateStep(c) ==
    /\ act[c].pc = "sweep"
    /\ act[c].idx <= NumPools
    /\ active' = [active EXCEPT ![act[c].idx] =
                     activate_value(act[c].idx, act[c].pool, active[act[c].idx])]
    /\ act' = [act EXCEPT ![c].idx = @ + 1]
    /\ UNCHANGED jailVars

\* the value activate returns once the loop is over
activate_result(pool) ==
    "true"

\* "return True" after the loop
ActivateReturn(c) ==
    /\ act[c].pc = "sweep"
    /\ act[c].idx > NumPools
    /\ act' = [act EXCEPT ![c] = [IdleCall EXCEPT
                                    !.pc = "returned",
                                    !.pool = act[c].pool,
                                    !.result = activate_result(act[c].pool)]]
    /\ UNCHANGED <<active, jailVars>>

(***************************************************************************)
(* The jails iocage knows and the calls made to JailService                *)
(***************************************************************************)
NoJail ==
    [exists |-> FALSE, running |-> FALSE, type |-> "none",
     props |-> <<>>, fstab |-> <<>>]

NewJail(type, running) ==
    [exists |-> TRUE, running |-> running, type |-> type,
     props |-> <<>>, fstab |-> <<>>]

\* a call that was not made; rows is the value a query returns; the fields
\* after rows are history, not program state: the jail's run state when the
\* call was made and when it returned, whether no other call on the same
\* jail was in flight in between, whether the job found its lock held when
\* it was submitted, and whether the backend enumeration of a query failed
NoCall ==
    [op |-> "none", jail |-> "", release |-> "", options |-> <<>>,
     props |-> <<>>, name |-> "", action |-> "", index |-> -1,
     template |-> "", empty |-> FALSE, filters |-> <<>>,
     pc |-> "idle", result |-> "none", status |-> FALSE, started |-> FALSE,
     idx |-> 0, rows |-> <<>>,
     pre |-> FALSE, post |-> FALSE, alone |-> FALSE, blocked |-> FALSE,
     failed |-> FALSE]

LockedOps ==
    {"fetch", "update_to_latest_patch", "upgrade", "export", "_import"}

BracketOps ==
    {"update_to_latest_patch", "upgrade", "export"}

\* the positional arguments of the job, after the job object
JobArgs(c) ==
    CASE c.op = "fetch" -> <<c.options>>
      [] c.op = "update_to_latest_patch" -> <<c.jail>>
      [] c.op = "upgrade" -> <<c.jail, c.release>>
      [] c.op = "export" -> <<c.jail>>
      [] c.op = "_import" -> <<c.jail>>

LockPrefix(op) ==
    CASE op = "fetch" -> "jail_fetch"
      [] op = "update_to_latest_patch" -> "jail_update"
      [] op = "upgrade" -> "jail_upgrade"
      [] op = "export" -> "jail_export"
      [] op = "_import" -> "jail_import"

\* lock=lambda args: f"jail_<kind>:{args[-1]}"
LockName(c) ==
    <<LockPrefix(c.op), JobArgs(c)[Len(JobArgs(c))]>>

\* options["release"] of a fetch options dict, given as its items in order
OptionsGet(options, key) ==
    LET hits == {i \in 1..Len(options) : options[i][1] = key}
    IN  IF hits = {} THEN "" ELSE options[CHOOSE i \in hits : TRUE][2]

\* the first statement of the method's body
FirstPc(op) ==
    CASE op = "fetch" -> "datasets"
      [] op = "create_job" -> "inspect"
      [] op = "_import" -> "delegate"
      [] op = "query" -> "enumerate"
      [] OTHER -> "check"

InFlight(s) ==
    req[s].pc \notin {"idle", "done"}

\* the call r returns or raises: result is what its caller observes
Done(c, result, js) ==
    [c EXCEPT !.pc = "done", !.result = result,
              !.post = IF c.jail \in JailIds THEN js[c.jail].running ELSE FALSE]

\* the job lock that stays held when job c leaves its body without
\* releasing after an error
ReleaseOnSuccessOnly(c, result) ==
    IF c.op \in LockedOps /\ result \in {"true", "false"}
    THEN locks \ {LockName(c)}
    ELSE locks

\* the job's lock is released when its body completes, however it does
Release(c, result) ==
    IF c.op \in LockedOps THEN locks \ {LockName(c)} ELSE locks

\* a client calls a method: a job with a lock is queued behind its lock,
\* any other call starts its body
Submit(r, call) ==
    /\ req[r].pc = "idle"
    /\ \A s \in Clients : s < r => req[s].pc # "idle"
    /\ req' = [s \in ReqIds |->
                 IF s = r
                 THEN [call EXCEPT
                         !.pc = IF call.op \in LockedOps
                                THEN "waiting" ELSE FirstPc(call.op),
                         !.pre = IF call.jail \in JailIds
                                 THEN jails[call.jail].running ELSE FALSE,
                         !.alone = \A o \in ReqIds \ {r} :
                                      ~(/\ InFlight(o)
                                        /\ call.jail # ""
                                        /\ req[o].jail = call.jail),
                         !.blocked = IF call.op \in LockedOps
                                     THEN LockName(call) \in locks ELSE FALSE]
                 ELSE IF InFlight(s) /\ call.jail # "" /\ req[s].jail = call.jail
                      THEN [req[s] EXCEPT !.alone = FALSE]
                      ELSE req[s]]
    /\ UNCHANGED <<jails, images, locks, poolVars>>

\* the job's lock is free: the job takes it and enters its body
Acquire(r) ==
    /\ req[r].pc = "waiting"
    /\ LockName(req[r]) \notin locks
    /\ locks' = locks \cup {LockName(req[r])}
    /\ req' = [req EXCEPT ![r].pc = FirstPc(req[r].op)]
    /\ UNCHANGED <<jails, images, poolVars>>

\* iocage.__check_jail_existence__ exits when no jail matches
check_jail_existence_always(jail) ==
    TRUE

check_jail_existence(jail) ==
    jail \in JailIds /\ jails[jail].exists

\* the first statement of a method that targets a jail
CheckJail(r) ==
    /\ req[r].pc = "check"
    /\ IF check_jail_existence(req[r].jail)
       THEN /\ req' = [req EXCEPT ![r].pc =
                         IF req[r].op \in BracketOps THEN "status"
                         ELSE IF req[r].op = "do_update" THEN "set"
                         ELSE IF req[r].op = "fstab" THEN "validate"
                         ELSE "call"]
            /\ UNCHANGED locks
       ELSE /\ req' = [req EXCEPT ![r] = Done(@, "NotFound", jails)]
            /\ locks' = Release(req[r], "NotFound")
    /\ UNCHANGED <<jails, images, poolVars>>

\* iocage.start() / iocage.stop() when the backend succeeds
SetRunning(jail, running) ==
    [jails EXCEPT ![jail].running = running]

\* the run state the delegated step needs: update and upgrade run in a
\* started jail, export in a stopped one
RequiredState(op) ==
    op # "export"

ErrorOf(op) ==
    CASE op = "update_to_latest_patch" -> "UpdateError"
      [] op = "upgrade" -> "UpgradeError"
      [] op = "export" -> "ExportError"
      [] op = "_import" -> "ImportError"
      [] op = "start" -> "StartError"
      [] op = "stop" -> "StopError"
      [] op = "do_delete" -> "DestroyError"
      [] op = "exec" -> "ExecError"

TransitionError(running) ==
    IF running THEN "StartError" ELSE "StopError"

\* where the job goes once it has read status and conf: None stands for
\* "return False"
bracket_entry_no_type_check(op, type, status) ==
    IF status = RequiredState(op) THEN "delegate" ELSE "in_check"

bracket_entry(op, type, status) ==
    IF op # "export" /\ type # "jail"
    THEN "None"
    ELSE IF status = RequiredState(op) THEN "delegate" ELSE "in_check"

\* IOCList.list_get_jid(uuid) and IOCJson(path).json_load(), then the
\* "if conf[type] == jail / if not status" (export: "if status") decision;
\* json_load fails when the jail was destroyed after check_jail_existence
ReadStatus(r) ==
    /\ req[r].pc = "status"
    /\ LET j == jails[req[r].jail]
           next == bracket_entry(req[r].op, j.type, j.running)
       IN  IF ~j.exists /\ req[r].op # "export"
           THEN /\ req' = [req EXCEPT ![r] = Done(@, "ConfigError", jails)]
                /\ locks' = Release(req[r], "ConfigError")
           ELSE IF next = "None"
           THEN /\ req' = [req EXCEPT ![r] = Done(@, "false", jails)]
                /\ locks' = Release(req[r], "false")
           ELSE /\ req' = [req EXCEPT ![r].pc = next, ![r].status = j.running]
                /\ UNCHANGED locks
    /\ UNCHANGED <<jails, images, poolVars>>

\* self.start(jail) / self.stop(jail) before the delegated step:
\* its check_jail_existence
BracketCheck(r) ==
    /\ req[r].pc = "in_check"
    /\ IF check_jail_existence(req[r].jail)
       THEN /\ req' = [req EXCEPT ![r].pc = "in_call"]
            /\ UNCHANGED locks
       ELSE /\ req' = [req EXCEPT ![r] = Done(@, "NotFound", jails)]
            /\ locks' = Release(req[r], "NotFound")
    /\ UNCHANGED <<jails, images, poolVars>>

\* ... and its iocage.start() / iocage.stop(), then "started = True"
BracketCall(r) ==
    /\ req[r].pc = "in_call"
    /\ LET want == RequiredState(req[r].op)
       IN  \E ok \in BOOLEAN :
             IF ok /\ jails[req[r].jail].exists
             THEN /\ jails' = SetRunning(req[r].jail, want)
                  /\ req' = [req EXCEPT ![r].pc = "delegate",
                                        ![r].started = TRUE]
                  /\ UNCHANGED locks
             ELSE /\ UNCHANGED jails
                  /\ req' = [req EXCEPT ![r] =
                               Done(@, TransitionError(want), jails)]
                  /\ locks' = Release(req[r], TransitionError(want))
    /\ UNCHANGED <<images, poolVars>>

\* where the job goes after the delegated step returned
after_delegate_always_restore(started) ==
    "out_check"

after_delegate(started) ==
    IF started THEN "out_check" ELSE "return"

\* the delegated step returns or raises: IOCFetch.fetch_update,
\* IOCUpgrade.upgrade_jail, IOCImage.export_jail, IOCImage.import_jail
Delegate(r) ==
    /\ req[r].pc = "delegate"
    /\ LET c == req[r]
           can == IF c.op = "_import"
                  THEN ~jails[c.jail].exists ELSE jails[c.jail].exists
       IN  \E ok \in BOOLEAN :
             IF ok /\ can
             THEN /\ jails' = IF c.op = "_import"
                              THEN [jails EXCEPT ![c.jail] = NewJail("jail", FALSE)]
                              ELSE jails
                  /\ IF c.op # "_import" /\ after_delegate(c.started) = "out_check"
                     THEN /\ req' = [req EXCEPT ![r].pc = "out_check"]
                          /\ UNCHANGED locks
                     ELSE /\ req' = [req EXCEPT ![r] = Done(@, "true", jails')]
                          /\ locks' = Release(c, "true")
             ELSE /\ UNCHANGED jails
                  /\ req' = [req EXCEPT ![r] = Done(@, ErrorOf(c.op), jails)]
                  /\ locks' = Release(c, ErrorOf(c.op))
    /\ UNCHANGED <<images, poolVars>>

\* self.stop(jail) / self.start(jail) after the delegated step:
\* its check_jail_existence
RestoreCheck(r) ==
    /\ req[r].pc = "out_check"
    /\ IF check_jail_existence(req[r].jail)
       THEN /\ req' = [req EXCEPT ![r].pc = "out_call"]
            /\ UNCHANGED locks
       ELSE /\ req' = [req EXCEPT ![r] = Done(@, "NotFound", jails)]
            /\ locks' = Release(req[r], "NotFound")
    /\ UNCHANGED <<jails, images, poolVars>>

\* ... and its iocage.stop() / iocage.start(), then "return True"
RestoreCall(r) ==
    /\ req[r].pc = "out_call"
    /\ LET back == ~RequiredState(req[r].op)
       IN  \E ok \in BOOLEAN :
             IF ok /\ jails[req[r].jail].exists
             THEN /\ jails' = SetRunning(req[r].jail, back)
                  /\ req' = [req EXCEPT ![r] = Done(@, "true", jails')]
                  /\ locks' = Release(req[r], "true")
             ELSE /\ UNCHANGED jails
                  /\ req' = [req EXCEPT ![r] =
                               Done(@, TransitionError(back), jails)]
                  /\ locks' = Release(req[r], TransitionError(back))
    /\ UNCHANGED <<images, poolVars>>

\* start, stop, do_delete, exec: the iocage call after check_jail_existence
Call(r) ==
    /\ req[r].pc = "call"
    /\ LET c == req[r]
       IN  \E ok \in BOOLEAN :
             IF ok /\ jails[c.jail].exists
             THEN /\ jails' = CASE c.op = "start" -> SetRunning(c.jail, TRUE)
                                [] c.op = "stop" -> SetRunning(c.jail, FALSE)
                                [] c.op = "do_delete" ->
                                     [jails EXCEPT ![c.jail] = NoJail]
                                [] c.op = "exec" -> jails
                  /\ req' = [req EXCEPT ![r] = Done(@, "true", jails')]
             ELSE /\ UNCHANGED jails
                  /\ req' = [req EXCEPT ![r] = Done(@, ErrorOf(c.op), jails)]
    /\ UNCHANGED <<images, locks, poolVars>>

\* fetch: self.check_dataset_existence(), then iocage.fetch(**options) begins
FetchDatasets(r) ==
    /\ req[r].pc = "datasets"
    /\ req' = [req EXCEPT ![r].pc = "download"]
    /\ UNCHANGED <<jails, images, locks, poolVars>>

\* iocage.fetch(**options) returns or raises
FetchDownload(r) ==
    /\ req[r].pc = "download"
    /\ \E ok \in BOOLEAN :
         IF ok
         THEN /\ images' = images \cup {OptionsGet(req[r].options, "release")}
              /\ req' = [req EXCEPT ![r] = Done(@, "true", jails)]
              /\ locks' = Release(req[r], "true")
         ELSE /\ UNCHANGED images
              /\ req' = [req EXCEPT ![r] = Done(@, "FetchError", jails)]
              /\ locks' = Release(req[r], "FetchError")
    /\ UNCHANGED <<jails, poolVars>>

\* the release create_job passes on: "if template: release = template"
create_release(c) ==
    IF c.template # "" THEN c.template ELSE c.release

\* a create that fetches whenever the release image is absent and no
\* template is given, empty or not
create_needs_fetch_ignoring_empty(c) ==
    /\ create_release(c) \notin images
    /\ c.template = ""

\* "not os.path.isdir(iocroot/releases/release) and not template and not
\* empty"
create_needs_fetch(c) ==
    /\ create_release(c) \notin images
    /\ c.template = ""
    /\ ~c.empty

\* create_job up to self.middleware.call_sync('jail.fetch', {"release":
\* release}): the fetch job is submitted like any other
CreateInspect(r) ==
    /\ req[r].pc = "inspect"
    /\ IF create_needs_fetch(req[r])
       THEN LET f == [NoCall EXCEPT
                        !.op = "fetch",
                        !.options = <<<<"release", create_release(req[r])>>>>]
            IN  req' = [req EXCEPT
                          ![r].pc = "wait",
                          ![r + NumJobs] =
                              [f EXCEPT !.pc = "waiting",
                                        !.blocked = LockName(f) \in locks]]
       ELSE req' = [req EXCEPT ![r].pc = "create"]
    /\ UNCHANGED <<jails, images, locks, poolVars>>

\* .wait_sync() returns once the fetch job is over
CreateWait(r) ==
    /\ req[r].pc = "wait"
    /\ req[r + NumJobs].pc = "done"
    /\ IF req[r + NumJobs].result = "true"
       THEN req' = [req EXCEPT ![r].pc = "create"]
       ELSE req' = [req EXCEPT ![r] = Done(@, "FetchError", jails)]
    /\ UNCHANGED <<jails, images, locks, poolVars>>

\* err, msg = iocage.create(...); "if err: raise CallError(msg)"
CreateCall(r) ==
    /\ req[r].pc = "create"
    /\ \E ok \in BOOLEAN :
         IF ok /\ ~jails[req[r].jail].exists
         THEN /\ jails' = [jails EXCEPT ![req[r].jail] = NewJail("jail", FALSE)]
              /\ req' = [req EXCEPT ![r] = Done(@, "true", jails')]
         ELSE /\ UNCHANGED jails
              /\ req' = [req EXCEPT ![r] = Done(@, "CallError", jails)]
    /\ UNCHANGED <<images, locks, poolVars>>

\* a do_update that walks the options from the last one to the first
do_update_prop_reversed(c) ==
    LET item == c.props[Len(c.props) - c.idx]
    IN  item[1] \o "=" \o item[2]

\* p = f"{prop}={val}" of the iteration do_update is at; options.items()
\* gives the pairs in the order the caller put them
do_update_prop(c) ==
    LET item == c.props[c.idx + 1]
    IN  item[1] \o "=" \o item[2]

\* do_update: one iteration of "for prop, val in options.items()":
\* iocage.set(p, plugin)
SetWrite(r) ==
    /\ req[r].pc = "set"
    /\ req[r].idx < Len(req[r].props)
    /\ LET c == req[r]
       IN  \E ok \in BOOLEAN :
             IF ok /\ jails[c.jail].exists
             THEN /\ jails' = [jails EXCEPT ![c.jail].props =
                                 Append(@, do_update_prop(c))]
                  /\ req' = [req EXCEPT ![r].idx = @ + 1]
             ELSE /\ UNCHANGED jails
                  /\ req' = [req EXCEPT ![r] = Done(@, "SetError", jails)]
    /\ UNCHANGED <<images, locks, poolVars>>

\* do_update after the loop: "if name: iocage.rename(name)", "return True"
SetRename(r) ==
    /\ req[r].pc = "set"
    /\ req[r].idx >= Len(req[r].props)
    /\ LET c == req[r]
       IN  IF c.name = ""
           THEN /\ UNCHANGED jails
                /\ req' = [req EXCEPT ![r] = Done(@, "true", jails)]
           ELSE \E ok \in BOOLEAN :
                  IF ok /\ jails[c.jail].exists /\ ~jails[c.name].exists
                  THEN /\ jails' = [jails EXCEPT ![c.name] = jails[c.jail],
                                                 ![c.jail] = NoJail]
                       /\ req' = [req EXCEPT ![r] = Done(@, "true", jails')]
                  ELSE /\ UNCHANGED jails
                       /\ req' = [req EXCEPT ![r] = Done(@, "RenameError", jails)]
    /\ UNCHANGED <<images, locks, poolVars>>

\* what iocage.fstab(action, source, ..., index=index) leaves in the
\* jail's fstab; index None is -1
iocage_fstab(fstab, action, index) ==
    CASE action = "add" -> Append(fstab, "added")
      [] action = "replace" ->
           [i \in 1..Len(fstab) |-> IF i = index + 1 THEN "replaced" ELSE fstab[i]]
      [] action = "remove" ->
           SelectSeq([i \in 1..Len(fstab) |->
                         IF i = index + 1 THEN "" ELSE fstab[i]],
                     LAMBDA e : e # "")
      [] OTHER -> fstab

\* options["action"].lower(), on the spellings clients send
lower(a) ==
    CASE a = "REPLACE" -> "replace"
      [] a = "Replace" -> "replace"
      [] OTHER -> a

\* an fstab that hands every replace to iocage, index or not
fstab_index_unchecked(action, index) ==
    FALSE

\* 'if action == "replace" and index is None'
fstab_index_missing(action, index) ==
    action = "replace" /\ index = -1

\* fstab after check_jail_existence: "raise ValueError" when the index is
\* missing, else iocage.fstab(action, ..., index=index)
FstabCall(r) ==
    /\ req[r].pc = "validate"
    /\ LET c == req[r]
           action == lower(c.action)
       IN  IF fstab_index_missing(action, c.index)
           THEN /\ UNCHANGED jails
                /\ req' = [req EXCEPT ![r] = Done(@, "ValueError", jails)]
           ELSE \E ok \in BOOLEAN :
                  IF ok /\ jails[c.jail].exists
                  THEN /\ jails' = [jails EXCEPT ![c.jail].fstab =
                                      iocage_fstab(@, action, c.index)]
                       /\ req' = [req EXCEPT ![r] = Done(@, "true", jails')]
                  ELSE /\ UNCHANGED jails
                       /\ req' = [req EXCEPT ![r] = Done(@, "FstabError", jails)]
    /\ UNCHANGED <<images, locks, poolVars>>

\* the order in which iocage lists the jails
JailOrder ==
    <<"db1", "new1", "tpl1", "web1">>

\* [list(jail.values())[0] for jail in IOCage().get("all", recursive=True)]:
\* one row per jail iocage knows
ioc_get_all ==
    LET ids == SelectSeq(JailOrder, LAMBDA j : jails[j].exists)
    IN  [k \in 1..Len(ids) |->
           [host_hostuuid |-> ids[k],
            type |-> jails[ids[k]].type,
            state |-> IF jails[ids[k]].running THEN "up" ELSE "down"]]

\* a query that lets the failure of the enumeration reach its caller
query_result_raising(ok) ==
    IF ok THEN "true" ELSE "QueryError"

\* "except BaseException: ... pass": query returns, whatever
\* IOCage().get did
query_result(ok) ==
    "true"

\* "jails = []", then the enumeration assigns jails only when it did not
\* raise
query_jails(ok) ==
    IF ok THEN ioc_get_all ELSE <<>>

\* filter_list(jails, filters, options): the rows that meet every filter
\* <<field, "=", value>>, in the order given
filter_list(rows, filters) ==
    SelectSeq(rows, LAMBDA row :
                      \A i \in 1..Len(filters) : row[filters[i][1]] = filters[i][3])

\* query: the enumeration returns or raises, then
\* "return filter_list(jails, filters, options)"
Query(r) ==
    /\ req[r].pc = "enumerate"
    /\ \E ok \in BOOLEAN :
         req' = [req EXCEPT ![r] =
                   [Done(@, query_result(ok), jails) EXCEPT
                      !.rows = IF query_result(ok) = "true"
                               THEN filter_list(query_jails(ok),
                                                req[r].filters)
                               ELSE <<>>,
                      !.failed = ~ok]]
    /\ UNCHANGED <<jails, images, locks, poolVars>>

(***************************************************************************)
(* The calls clients make                                                  *)
(***************************************************************************)
JailCalls(ops, ids) ==
    {[NoCall EXCEPT !.op = op, !.jail = j] : op \in ops, j \in ids}

UpgradeCalls(ids, rels) ==
    {[NoCall EXCEPT !.op = "upgrade", !.jail = j, !.release = rel] :
        j \in ids, rel \in rels}

\* the options dicts clients pass to jail.fetch
FetchOptions ==
    {<<<<"release", "11.1-RELEASE">>>>,
     <<<<"release", "11.1-RELEASE">>, <<"server", "ftp.freebsd.org">>>>,
     <<<<"release", "11.0-RELEASE">>>>}

FetchCalls ==
    {[NoCall EXCEPT !.op = "fetch", !.options = o] : o \in FetchOptions}

CreateCalls ==
    {[NoCall EXCEPT !.op = "create_job", !.jail = "new1",
                    !.release = "11.1-RELEASE", !.template = t, !.empty = e] :
        t \in {"", "tpl1"}, e \in BOOLEAN}

SetCalls(ids) ==
    {[NoCall EXCEPT !.op = "do_update", !.jail = j, !.props = p, !.name = n] :
        j \in ids, p \in {<<>>, <<<<"boot", "on">>>>,
                           <<<<"boot", "on">>, <<"vnet", "off">>>>},
        n \in {"", "new1"}}

FstabCalls(ids) ==
    {[NoCall EXCEPT !.op = "fstab", !.jail = j, !.action = a, !.index = i] :
        j \in ids, a \in {"add", "replace", "list"}, i \in {-1, 0}}

\* the jobs, and direct start and stop calls
JobMenu ==
    JailCalls({"update_to_latest_patch"}, {"web1", "tpl1", "new1"})
    \cup UpgradeCalls({"web1", "db1"}, Releases)
    \cup UpgradeCalls({"tpl1", "new1"}, {"11.1-RELEASE"})
    \cup JailCalls({"export"}, {"web1", "new1"})
    \cup JailCalls({"_import"}, {"new1"})
    \cup FetchCalls
    \cup CreateCalls
    \cup JailCalls({"start", "stop"}, {"web1"})

\* every method that targets a jail, called with an identifier no jail
\* has, and the calls that make a jail appear or go away
CrudMenu ==
    JailCalls({"start", "stop", "do_delete", "exec", "export",
               "update_to_latest_patch"}, {"new1"})
    \cup UpgradeCalls({"new1"}, {"11.1-RELEASE"})
    \cup {[NoCall EXCEPT !.op = "do_update", !.jail = j,
                         !.props = <<<<"boot", "on">>>>, !.name = n] :
             j \in {"web1", "new1"}, n \in {"", "new1"}}
    \cup {[NoCall EXCEPT !.op = "fstab", !.jail = j, !.action = "add"] :
             j \in {"web1", "new1"}}
    \cup JailCalls({"stop", "do_delete", "export"}, {"web1"})

\* the jobs that take a lock, on every exit path of their bodies
LockMenu ==
    JailCalls({"update_to_latest_patch"}, {"web1", "new1"})
    \cup JailCalls({"export"}, {"web1"})
    \cup UpgradeCalls({"tpl1"}, {"11.1-RELEASE"})
    \cup JailCalls({"_import"}, {"new1"})
    \cup {[NoCall EXCEPT !.op = "fetch",
                         !.options = <<<<"release", "11.1-RELEASE">>>>]}

JailInit ==
    /\ \E b1, b2 \in BOOLEAN :
         jails = [j \in JailIds |->
                    CASE j = "web1" -> NewJail("jail", b1)
                      [] j = "db1" -> NewJail("jail", b2)
                      [] j = "tpl1" -> NewJail("template", FALSE)
                      [] OTHER -> NoJail]
    /\ images \in {{}, {"11.1-RELEASE"}}
    /\ locks = {}
    /\ req = [r \in ReqIds |-> NoCall]

(***************************************************************************)
(* Specifications                                                          *)
(***************************************************************************)
\* Spec: jobs and direct start/stop calls
Init ==
    /\ JailInit
    /\ active = [p \in Pools |-> FALSE]
    /\ act = [c \in Callers |-> IdleCall]

Next ==
    \/ \E r \in Clients, call \in JobMenu : Submit(r, call)
    \/ \E r \in ReqIds : Acquire(r)
    \/ \E r \in ReqIds : CheckJail(r)
    \/ \E r \in ReqIds : ReadStatus(r)
    \/ \E r \in ReqIds : BracketCheck(r)
    \/ \E r \in ReqIds : BracketCall(r)
    \/ \E r \in ReqIds : Delegate(r)
    \/ \E r \in ReqIds : RestoreCheck(r)
    \/ \E r \in ReqIds : RestoreCall(r)
    \/ \E r \in ReqIds : Call(r)
    \/ \E r \in ReqIds : FetchDatasets(r)
    \/ \E r \in ReqIds : FetchDownload(r)
    \/ \E r \in ReqIds : CreateInspect(r)
    \/ \E r \in ReqIds : CreateWait(r)
    \/ \E r \in ReqIds : CreateCall(r)

Spec ==
    Init /\ [][Next]_vars

\* CrudSpec: every call that targets a jail, on known and unknown jails
CrudNext ==
    \/ \E r \in Clients, call \in CrudMenu : Submit(r, call)
    \/ \E r \in ReqIds : Acquire(r)
    \/ \E r \in ReqIds : CheckJail(r)
    \/ \E r \in ReqIds : ReadStatus(r)
    \/ \E r \in ReqIds : BracketCheck(r)
    \/ \E r \in ReqIds : BracketCall(r)
    \/ \E r \in ReqIds : Delegate(r)
    \/ \E r \in ReqIds : RestoreCheck(r)
    \/ \E r \in ReqIds : RestoreCall(r)
    \/ \E r \in ReqIds : Call(r)
    \/ \E r \in ReqIds : SetWrite(r)
    \/ \E r \in ReqIds : SetRename(r)
    \/ \E r \in ReqIds : FstabCall(r)

\* one jail, running or not, and a template
SmallInit ==
    /\ \E b \in BOOLEAN :
         jails = [j \in JailIds |->
                    CASE j = "web1" -> NewJail("jail", b)
                      [] j = "tpl1" -> NewJail("template", FALSE)
                      [] OTHER -> NoJail]
    /\ images = {}
    /\ locks = {}
    /\ req = [r \in ReqIds |-> NoCall]
    /\ active = [p \in Pools |-> FALSE]
    /\ act = [c \in Callers |-> IdleCall]

CrudSpec ==
    SmallInit /\ [][CrudNext]_vars

\* LockSpec: the jobs that take a lock; a job that can take a step
\* eventually takes it (the job runs on its own thread and every iocage
\* call returns or raises)
JobStep(r) ==
    \/ Acquire(r)
    \/ CheckJail(r)
    \/ ReadStatus(r)
    \/ BracketCheck(r)
    \/ BracketCall(r)
    \/ Delegate(r)
    \/ RestoreCheck(r)
    \/ RestoreCall(r)
    \/ FetchDatasets(r)
    \/ FetchDownload(r)

LockNext ==
    \/ \E r \in Clients, call \in LockMenu : Submit(r, call)
    \/ \E r \in Clients : JobStep(r)

LockInit ==
    /\ SmallInit
    /\ ~jails["web1"].running

LockSpec ==
    /\ LockInit
    /\ [][LockNext]_vars
    /\ \A r \in Clients : WF_vars(JobStep(r))

\* BracketSpec: the jobs that start or stop the jail around their delegated
\* step, on a jail and on a template, with direct start and stop calls
BracketMenu ==
    JailCalls({"update_to_latest_patch", "export"}, {"web1", "tpl1"})
    \cup UpgradeCalls({"web1"}, {"11.1-RELEASE"})
    \cup JailCalls({"start", "stop"}, {"web1"})

BracketNext ==
    \/ \E r \in Clients, call \in BracketMenu : Submit(r, call)
    \/ \E r \in Clients : Acquire(r)
    \/ \E r \in Clients : CheckJail(r)
    \/ \E r \in Clients : ReadStatus(r)
    \/ \E r \in Clients : BracketCheck(r)
    \/ \E r \in Clients : BracketCall(r)
    \/ \E r \in Clients : Delegate(r)
    \/ \E r \in Clients : RestoreCheck(r)
    \/ \E r \in Clients : RestoreCall(r)
    \/ \E r \in Clients : Call(r)

BracketSpec ==
    SmallInit /\ [][BracketNext]_vars

\* CreateSpec: create jobs, the fetch jobs they submit and fetch jobs of
\* clients, with the release image present or not
CreateMenu ==
    CreateCalls
    \cup {[NoCall EXCEPT !.op = "fetch",
                         !.options = <<<<"release", "11.1-RELEASE">>>>]}

CreateNext ==
    \/ \E r \in Clients, call \in CreateMenu : Submit(r, call)
    \/ \E r \in ReqIds : Acquire(r)
    \/ \E r \in ReqIds : FetchDatasets(r)
    \/ \E r \in ReqIds : FetchDownload(r)
    \/ \E r \in Clients : CreateInspect(r)
    \/ \E r \in Clients : CreateWait(r)
    \/ \E r \in Clients : CreateCall(r)

CreateInit ==
    /\ jails = [j \in JailIds |->
                  CASE j = "web1" -> NewJail("jail", FALSE)
                    [] j = "tpl1" -> NewJail("template", FALSE)
                    [] OTHER -> NoJail]
    /\ images \in {{}, {"11.1-RELEASE"}}
    /\ locks = {}
    /\ req = [r \in ReqIds |-> NoCall]
    /\ active = [p \in Pools |-> FALSE]
    /\ act = [c \in Callers |-> IdleCall]

CreateSpec ==
    CreateInit /\ [][CreateNext]_vars

\* FstabSpec: fstab calls on a jail that has two fstab entries
FstabMenu ==
    {[NoCall EXCEPT !.op = "fstab", !.jail = "web1", !.action = a,
                    !.index = i] :
        a \in {"add", "replace", "REPLACE", "list"}, i \in {-1, 0, 1}}

FstabNext ==
    \/ \E r \in Clients, call \in FstabMenu : Submit(r, call)
    \/ \E r \in Clients : CheckJail(r)
    \/ \E r \in Clients : FstabCall(r)

FstabInit ==
    /\ jails = [j \in JailIds |->
                  IF j = "web1"
                  THEN [NewJail("jail", FALSE) EXCEPT
                          !.fstab = <<"/mnt/a", "/mnt/b">>]
                  ELSE NoJail]
    /\ images = {}
    /\ locks = {}
    /\ req = [r \in ReqIds |-> NoCall]
    /\ active = [p \in Pools |-> FALSE]
    /\ act = [c \in Callers |-> IdleCall]

FstabSpec ==
    FstabInit /\ [][FstabNext]_vars

\* SetSpec: do_update calls on one jail, with no, one or two properties and
\* with or without a new name
SetMenu ==
    SetCalls({"web1"})

SetNext ==
    \/ \E r \in Clients, call \in SetMenu : Submit(r, call)
    \/ \E r \in Clients : CheckJail(r)
    \/ \E r \in Clients : SetWrite(r)
    \/ \E r \in Clients : SetRename(r)

SetSpec ==
    SmallInit /\ [][SetNext]_vars

\* QuerySpec: queries, with and without filters, next to calls that start,
\* stop and destroy a jail
QueryMenu ==
    {[NoCall EXCEPT !.op = "query", !.filters = f] :
        f \in {<<>>, <<<<"type", "=", "jail">>>>, <<<<"state", "=", "up">>>>}}
    \cup JailCalls({"start", "stop", "do_delete"}, {"web1"})

QueryNext ==
    \/ \E r \in Clients, call \in QueryMenu : Submit(r, call)
    \/ \E r \in Clients : Query(r)
    \/ \E r \in Clients : CheckJail(r)
    \/ \E r \in Clients : Call(r)

QuerySpec ==
    SmallInit /\ [][QueryNext]_vars

\* WorkerSpec: create and fetch jobs on a pool of MaxWorkers threads. A job
\* occupies a thread from the moment its body starts until it returns or
\* raises, the time create_job spends in wait_sync() included.
MaxWorkers ==
    2

BusyWorkers ==
    Cardinality({r \in ReqIds : req[r].pc \notin {"idle", "waiting", "done"}})

\* a client submits a job: it is queued until a thread, and its lock if it
\* has one, are free
Enqueue(r, call) ==
    /\ req[r].pc = "idle"
    /\ \A s \in Clients : s < r => req[s].pc # "idle"
    /\ req' = [req EXCEPT ![r] =
                 [call EXCEPT
                    !.pc = "waiting",
                    !.blocked = IF call.op \in LockedOps
                                THEN LockName(call) \in locks ELSE FALSE]]
    /\ UNCHANGED <<jails, images, locks, poolVars>>

\* a queued job gets a thread, takes its lock and enters its body
Dispatch(r) ==
    /\ req[r].pc = "waiting"
    /\ BusyWorkers < MaxWorkers
    /\ IF req[r].op \in LockedOps
       THEN /\ LockName(req[r]) \notin locks
            /\ locks' = locks \cup {LockName(req[r])}
       ELSE UNCHANGED locks
    /\ req' = [req EXCEPT ![r].pc = FirstPc(req[r].op)]
    /\ UNCHANGED <<jails, images, poolVars>>

WorkerMenu ==
    {[NoCall EXCEPT !.op = "create_job", !.jail = "new1",
                    !.release = "11.1-RELEASE", !.empty = e] : e \in BOOLEAN}
    \cup {[NoCall EXCEPT !.op = "fetch",
                         !.options = <<<<"release", "11.1-RELEASE">>>>]}

WorkerStep(r) ==
    \/ Dispatch(r)
    \/ FetchDatasets(r)
    \/ FetchDownload(r)
    \/ CreateInspect(r)
    \/ CreateWait(r)
    \/ CreateCall(r)

WorkerNext ==
    \/ \E r \in Clients, call \in WorkerMenu : Enqueue(r, call)
    \/ \E r \in ReqIds : Dispatch(r)
    \/ \E r \in ReqIds : FetchDatasets(r)
    \/ \E r \in ReqIds : FetchDownload(r)
    \/ \E r \in Clients : CreateInspect(r)
    \/ \E r \in Clients : CreateWait(r)
    \/ \E r \in Clients : CreateCall(r)

WorkerSpec ==
    /\ CreateInit
    /\ [][WorkerNext]_vars
    /\ \A r \in ReqIds : WF_vars(WorkerStep(r))

\* PoolSpec: clients calling jail.activate
PoolInit ==
    /\ active \in {f \in [Pools -> BOOLEAN] :
                      Cardinality({p \in Pools : f[p]}) <= 1}
    /\ act = [c \in Callers |-> IdleCall]
    /\ jails = [j \in JailIds |-> NoJail]
    /\ images = {}
    /\ locks = {}
    /\ req = [r \in ReqIds |-> NoCall]

PoolNext ==
    \/ \E c \in Callers, pool \in PoolNames : ActivateCall(c, pool)
    \/ \E c \in Callers : ActivateStep(c)
    \/ \E c \in Callers : ActivateReturn(c)

PoolSpec ==
    PoolInit /\ [][PoolNext]_vars

(***************************************************************************)
(* Claims about JailService.activate, checked under PoolSpec               *)
(***************************************************************************)
ActiveSet ==
    {p \in Pools : active[p]}

\* client c has run every iteration of the loop and no other activate call
\* was in its loop at any time since c called
SweptAlone(c) ==
    /\ act[c].pc = "sweep"
    /\ act[c].idx > NumPools
    /\ act[c].alone

\* C7: after activate(p), p one of the pools, has run its whole loop with no
\* concurrent activate, exactly pool p is active, whatever the flags were
\* before; in particular a second activate(p), started from the flags the
\* first one left, leaves them as they were.
C7_ActivatePostcondition ==
    \A c \in Callers :
        (SweptAlone(c) /\ act[c].pool \in Pools)
            => /\ ActiveSet = {act[c].pool}
               /\ (act[c].before = "exact" => \A p \in Pools : active[p] <=> p = act[c].pool)

\* a lone activate(p) has finished its loop from flags where another pool
\* was active
C7_Witness ==
    \E c \in Callers :
        /\ SweptAlone(c)
        /\ act[c].pool \in Pools
        /\ act[c].before = "other"
        /\ ActiveSet = {act[c].pool}

\* C8: in every reachable state, the intermediate states of a sweep and of
\* two interleaved sweeps included, at most one pool is active.
C8_SingleActivePool ==
    Cardinality(ActiveSet) <= 1

\* C9: activate with a name no pool has fails with PoolNotFoundError (it
\* does not return true), and the sweep has run, so every pool is inactive.
C9_UnknownPoolFails ==
    \A c \in Callers :
        act[c].pool \notin Pools
            => /\ act[c].pc = "returned" => act[c].result = "PoolNotFoundError"
               /\ SweptAlone(c) => ActiveSet = {}

(***************************************************************************)
(* Claims about the jobs and their locks                                   *)
(***************************************************************************)
\* the job or call is executing its body
InBody(r) ==
    InFlight(r) /\ req[r].pc # "waiting"

\* what the call is about: the release of a fetch, the jail of any other
Identifier(c) ==
    IF c.op = "fetch" THEN OptionsGet(c.options, "release") ELSE c.jail

\* C1: a jail of kind jail is stopped, update_to_latest_patch or upgrade is
\* called with nothing else in flight on the jail, the call starts the jail
\* and the delegated step fails: when the call returns the jail is stopped
\* again and the call reports the error of the delegated step.
C1_BracketRestoresOnFailure ==
    \A r \in ReqIds :
        (/\ req[r].op \in {"update_to_latest_patch", "upgrade"}
         /\ req[r].pc = "done"
         /\ req[r].alone
         /\ ~req[r].pre
         /\ req[r].started
         /\ req[r].result \in {"UpdateError", "UpgradeError"})
            => /\ ~req[r].post
               /\ req[r].result = ErrorOf(req[r].op)

\* C2: a jail is running, export is called with nothing else in flight on
\* the jail: the jail is stopped while the archive is produced, and if
\* producing it fails the jail is running again when the call returns,
\* which reports the archive error.
C2_ExportRestoresOnFailure ==
    \A r \in ReqIds :
        (req[r].op = "export" /\ req[r].alone /\ req[r].pre)
            => /\ req[r].pc = "delegate" => ~jails[req[r].jail].running
               /\ (req[r].pc = "done" /\ req[r].result = "ExportError")
                     => req[r].post

\* C3: at most one job of a kind that takes a lock is executing its body
\* for a given identifier; in particular two upgrades of one jail to
\* different releases never execute their bodies at the same time.
C3_MutualExclusion ==
    \A r1, r2 \in ReqIds :
        (/\ r1 # r2
         /\ InBody(r1) /\ InBody(r2)
         /\ req[r1].op \in LockedOps
         /\ req[r1].op = req[r2].op)
            => Identifier(req[r1]) # Identifier(req[r2])

\* C4: of the fetch jobs for one release, whatever their other options and
\* whoever submitted them, at most one has its iocage.fetch in progress.
C4_SingleDownload ==
    \A r1, r2 \in ReqIds :
        (/\ r1 # r2
         /\ req[r1].op = "fetch" /\ req[r2].op = "fetch"
         /\ req[r1].pc = "download" /\ req[r2].pc = "download")
            => Identifier(req[r1]) # Identifier(req[r2])

\* C5: a job waits for another job only if both are of the same kind and
\* target the same jail identifier; an upgrade of one jail never waits for
\* an upgrade of another jail.
C5_NoCrossContention ==
    \A r1, r2 \in ReqIds :
        (/\ r1 # r2
         /\ req[r1].pc = "waiting"
         /\ InBody(r2)
         /\ req[r2].op \in LockedOps
         /\ LockName(req[r1]) = LockName(req[r2]))
            => /\ req[r1].op = req[r2].op
               /\ Identifier(req[r1]) = Identifier(req[r2])

\* every held lock is the lock of a job that is executing its body
LocksHeldByRunning ==
    \A k \in locks :
        \E r \in ReqIds :
            InBody(r) /\ req[r].op \in LockedOps /\ LockName(req[r]) = k

\* C6: once the body of a job that takes a lock has finished, by returning
\* true or false or by raising, its lock is not held any more, and a job
\* waiting for a lock eventually enters its body.
C6_LockReleasedOnEveryExit ==
    /\ []LocksHeldByRunning
    /\ \A r \in Clients : (req[r].pc = "waiting") ~> (req[r].pc # "waiting")

\* a job has left its body by raising, and a job that found the same lock
\* held when it was submitted is executing its body
C6_Witness ==
    \E r1, r2 \in ReqIds :
        /\ req[r1].op \in LockedOps
        /\ req[r1].pc = "done"
        /\ req[r1].result \notin {"true", "false"}
        /\ req[r2].op \in LockedOps
        /\ req[r2].blocked
        /\ InBody(r2)
        /\ LockName(req[r1]) = LockName(req[r2])

\* C10: a call of start, stop, do_delete, do_update, fstab, exec, export,
\* upgrade or update_to_latest_patch whose identifier matches no jail ends
\* at its check_jail_existence with the not-found error, and nothing that
\* iocage holds for any jail changes.
C10_UnknownIdentifier ==
    [][\A r \in ReqIds :
          (/\ req[r].pc = "check"
           /\ ~jails[req[r].jail].exists
           /\ req'[r].pc # "check")
             => /\ req'[r].pc = "done"
                /\ req'[r].result = "NotFound"
                /\ jails' = jails]_vars

\* an export job and a do_update call, both for an identifier no jail has,
\* have failed with the not-found error
C10_Witness ==
    \E r1, r2 \in ReqIds :
        /\ req[r1].op = "export" /\ req[r2].op = "do_update"
        /\ \A r \in {r1, r2} :
              /\ req[r].pc = "done"
              /\ req[r].result = "NotFound"
              /\ ~jails[req[r].jail].exists

(***************************************************************************)
(* Claims about the start/stop bracket                                     *)
(***************************************************************************)
\* C11: a job of update_to_latest_patch, upgrade or export whose identifier
\* matches no jail fails before it takes its lock: no job holds its lock
\* while its identifier is unresolved and matches no jail.
C11_FailBeforeLocking ==
    \A r \in ReqIds :
        (/\ req[r].op \in BracketOps
         /\ req[r].pc = "check"
         /\ LockName(req[r]) \in locks)
            => jails[req[r].jail].exists

\* the job is past its status check: it is starting or stopping the jail,
\* running its delegated step, or restoring the run state
PastStatus(r) ==
    req[r].pc \in {"in_check", "in_call", "delegate", "out_check", "out_call"}

\* C13: for an entity whose kind is not jail, update_to_latest_patch,
\* upgrade and export return false and make no start call, no stop call
\* and no delegated call.
C13_NonJailShortCircuit ==
    \A r \in ReqIds :
        (/\ req[r].op \in BracketOps
         /\ jails[req[r].jail].exists
         /\ jails[req[r].jail].type # "jail")
            => /\ ~PastStatus(r)
               /\ req[r].pc = "done" => req[r].result = "false"

\* C16: with nothing else in flight on the jail, after a successful
\* update_to_latest_patch, upgrade or export the run state is what it was
\* before the call; the call started (export: stopped) the jail only if it
\* was not in the required state, and it makes the opposite transition
\* afterwards only if it made the first one.
C16_BracketOnSuccess ==
    \A r \in ReqIds :
        req[r].op \in BracketOps
            => /\ (req[r].alone /\ req[r].pc = "done" /\ req[r].result = "true")
                     => /\ req[r].post = req[r].pre
                        /\ req[r].started <=> (req[r].pre # RequiredState(req[r].op))
               /\ req[r].pc \in {"out_check", "out_call"} => req[r].started

\* an update of a stopped jail, alone on it, has returned true after
\* starting the jail, and the jail is stopped again
C16_Witness ==
    \E r \in ReqIds :
        /\ req[r].op = "update_to_latest_patch"
        /\ req[r].alone
        /\ req[r].pc = "done"
        /\ req[r].result = "true"
        /\ req[r].started
        /\ ~req[r].pre /\ ~req[r].post

\* C18: while the delegated step of update_to_latest_patch or upgrade is
\* executing the jail is running, and while the archive step of export is
\* executing the jail is stopped, whatever else runs on the same jail.
C18_RequiredStateDuringBody ==
    \A r \in ReqIds :
        (req[r].op \in BracketOps /\ req[r].pc = "delegate")
            => jails[req[r].jail].running = RequiredState(req[r].op)

\* the calls made so far on jail j
CallsOn(j) ==
    {r \in Clients : req[r].pc # "idle" /\ req[r].jail = j}

\* the first call made on jail j: calls are numbered as they are made
FirstCallOn(j) ==
    CHOOSE r \in CallsOn(j) : \A o \in CallsOn(j) : r <= o

\* C19: once update_to_latest_patch, upgrade and export jobs submitted on
\* one jail, concurrently or not, have all returned true, the jail's run
\* state is what it was before the first of them began.
C19_RestoredAfterConcurrentBrackets ==
    \A j \in JailIds :
        (/\ CallsOn(j) # {}
         /\ \A r \in CallsOn(j) :
               /\ req[r].op \in BracketOps
               /\ req[r].pc = "done"
               /\ req[r].result = "true")
            => jails[j].running = req[FirstCallOn(j)].pre

C15_FstabReplaceNeedsIndex ==
    [][\A r \in Clients :
         (/\ req[r].op = "fstab"
          /\ req[r].action \in {"replace", "REPLACE"}
          /\ req[r].pc = "validate"
          /\ req'[r].pc = "done") =>
             LET f == jails[req[r].jail].fstab
                 g == jails'[req[r].jail].fstab
             IN  IF req[r].index = -1
                 THEN /\ req'[r].result = "ValueError"
                      /\ jails' = jails
                 ELSE /\ req'[r].result # "ValueError"
                      /\ req'[r].result # "true" => jails' = jails
                      /\ req'[r].result = "true" =>
                            /\ Len(g) = Len(f)
                            /\ \A k \in 1..Len(f) :
                                 g[k] = IF k = req[r].index + 1
                                        THEN "replaced" ELSE f[k]
      ]_vars

C15_Witness ==
    /\ \E r \in Clients :
         /\ req[r].op = "fstab"
         /\ req[r].action = "REPLACE"
         /\ req[r].index = -1
         /\ req[r].pc = "done"
         /\ req[r].result = "ValueError"
    /\ \E r \in Clients :
         /\ req[r].op = "fstab"
         /\ req[r].action = "replace"
         /\ req[r].index = 1
         /\ req[r].pc = "done"
         /\ req[r].result = "true"
    /\ jails["web1"].fstab = <<"/mnt/a", "replaced">>

\* C17: every step of a do_update call with n property pairs is one of:
\* the next pair in the order given is written as "key=value" and nothing
\* else changes; that write fails, the call ends with the error and no jail
\* changes, so that the earlier writes stay and no later write or rename
\* is issued; after all n writes, the rename to the new name if one was
\* given; after all n writes and with no name, the return of true.
C17_SetPropertyOrdering ==
    [][\A r \in Clients :
         (/\ req[r].op = "do_update"
          /\ req[r].pc = "set"
          /\ <<req'[r].pc, req'[r].idx>> # <<req[r].pc, req[r].idx>>) =>
             LET c == req[r]
                 n == Len(c.props)
                 i == c.idx
                 d == req'[r]
             IN  \/ /\ i < n
                    /\ d = [c EXCEPT !.idx = i + 1]
                    /\ jails' = [jails EXCEPT ![c.jail].props =
                                   Append(@, c.props[i + 1][1] \o "="
                                               \o c.props[i + 1][2])]
                 \/ /\ i < n
                    /\ d.pc = "done"
                    /\ d.result = "SetError"
                    /\ d.idx = i
                    /\ jails' = jails
                 \/ /\ i = n
                    /\ c.name # ""
                    /\ d.pc = "done"
                    /\ \/ /\ d.result = "true"
                          /\ jails' = [jails EXCEPT ![c.name] = jails[c.jail],
                                                    ![c.jail] = NoJail]
                       \/ /\ d.result = "RenameError"
                          /\ jails' = jails
                 \/ /\ i = n
                    /\ c.name = ""
                    /\ d.pc = "done"
                    /\ d.result = "true"
                    /\ jails' = jails
      ]_vars

C17_Witness ==
    \E r \in Clients :
        /\ req[r].op = "do_update"
        /\ Len(req[r].props) = 2
        /\ req[r].name = "new1"
        /\ req[r].pc = "done"
        /\ req[r].result = "true"
        /\ ~jails["web1"].exists
        /\ jails["new1"].props = <<"boot=on", "vnet=off">>

\* C14: when the backend enumeration of a query fails, the query returns
\* normally with an empty sequence of rows, and the step changes no jail,
\* image, lock or pool state.
C14_QueryUnderBackendFailure ==
    [][\A r \in Clients :
         (/\ req[r].op = "query"
          /\ req[r].pc = "enumerate"
          /\ req'[r].pc = "done"
          /\ req'[r].failed) =>
             /\ req'[r].result = "true"
             /\ req'[r].rows = <<>>
             /\ jails' = jails
             /\ images' = images
             /\ locks' = locks
             /\ active' = active
      ]_vars

C14_Witness ==
    \E r \in Clients :
        /\ req[r].op = "query"
        /\ req[r].filters = <<>>
        /\ req[r].pc = "done"
        /\ req[r].failed
        /\ req[r].rows = <<>>
        /\ jails["web1"].exists

\* C20: every job that was submitted, a fetch submitted by a create
\* included, eventually returns or raises, on a pool of MaxWorkers threads
\* and with every enabled step of a job eventually taken.
C20_EveryJobTerminates ==
    \A r \in ReqIds : (req[r].pc # "idle") ~> (req[r].pc = "done")

=============================================================================
